---- MODULE Spec2Model ----
(***************************************************************************)
(* Model of the Rejseplanen departure-board tools:                         *)
(*   src/rejseplanen/app.py          (the "app" variant, extended rows)    *)
(*   src/fetch_departure_board.py    (the "fdb" variant, basic rows)       *)
(*                                                                         *)
(* JSON values are tagged records, so that values of different Python      *)
(* types can be compared: None, bool, int, str, list, dict.  A str is a    *)
(* sequence of one-character strings, so that parsing, lower-casing and    *)
(* stripping are computed character by character.                          *)
(***************************************************************************)
EXTENDS Integers, Sequences, FiniteSets, TLC

\* op, arg, ret: a single call of one function, its input and its result;
\* variant: the program, "app" or "fdb".
\* The run of main: pc is its position, args the parsed command line and
\* the environment, result the value main holds in payload / mqtt_payload,
\* output what has been printed, exit_code the value main returned and
\* calls the network calls made so far.
VARIABLES op, variant, arg, ret, pc, args, result, output, exit_code, calls

vars == <<op, variant, arg, ret, pc, args, result, output, exit_code, calls>>

mainVars == <<pc, args, result, output, exit_code, calls>>

\* no run of main is under way
NoRun ==
    /\ pc = "none"
    /\ args = [t |-> "null"]
    /\ result = [t |-> "null"]
    /\ output = <<>>
    /\ exit_code = -1
    /\ calls = <<>>

----------------------------------------------------------------------------
(* Python values *)

None == [t |-> "null"]
Bool(b) == [t |-> "bool", b |-> b]
Num(n) == [t |-> "num", n |-> n]
Str(s) == [t |-> "str", s |-> s]
List(l) == [t |-> "list", l |-> l]
Dict(m) == [t |-> "map", m |-> m]

EmptyDict == Dict(<<>>)

isStr(v) == v.t = "str"
isList(v) == v.t = "list"
isDict(v) == v.t = "map"

\* bool(v)
Truthy(v) ==
    CASE v.t = "null" -> FALSE
      [] v.t = "bool" -> v.b
      [] v.t = "num" -> v.n # 0
      [] v.t = "str" -> Len(v.s) > 0
      [] v.t = "list" -> Len(v.l) > 0
      [] v.t = "map" -> DOMAIN v.m # {}

\* d.get(k) and d.get(k, dflt) of a dict d
GetOr(d, k, dflt) == IF k \in DOMAIN d.m THEN d.m[k] ELSE dflt
Get(d, k) == GetOr(d, k, None)

----------------------------------------------------------------------------
(* Characters *)

Digits == {"0", "1", "2", "3", "4", "5", "6", "7", "8", "9"}
DigitChar == <<"0", "1", "2", "3", "4", "5", "6", "7", "8", "9">>
DigitVal(c) == (CHOOSE i \in 1..10 : DigitChar[i] = c) - 1

\* what \s of the re module and str.strip() take for white space
WhiteSpace == {" ", "\t", "\n"}

Upper == <<"A", "B", "C", "D", "E", "F", "G", "H", "I", "J", "K", "L", "M",
           "N", "O", "P", "Q", "R", "S", "T", "U", "V", "W", "X", "Y", "Z">>
Lower == <<"a", "b", "c", "d", "e", "f", "g", "h", "i", "j", "k", "l", "m",
           "n", "o", "p", "q", "r", "s", "t", "u", "v", "w", "x", "y", "z">>

LowerChar(c) ==
    IF \E i \in 1..26 : Upper[i] = c
    THEN Lower[CHOOSE i \in 1..26 : Upper[i] = c]
    ELSE c

\* str.lower()
lower(s) == [i \in 1..Len(s) |-> LowerChar(s[i])]

RECURSIVE lstrip(_)
lstrip(s) == IF Len(s) > 0 /\ s[1] \in WhiteSpace THEN lstrip(Tail(s)) ELSE s

RECURSIVE rstrip(_)
rstrip(s) ==
    IF Len(s) > 0 /\ s[Len(s)] \in WhiteSpace
    THEN rstrip(SubSeq(s, 1, Len(s) - 1))
    ELSE s

\* str.strip()
strip(s) == rstrip(lstrip(s))

\* int(text) for a text of digits with optional leading blanks
RECURSIVE ToInt(_)
ToInt(s) ==
    IF Len(s) = 0 THEN 0
    ELSE IF s[Len(s)] \in Digits
         THEN 10 * ToInt(SubSeq(s, 1, Len(s) - 1)) + DigitVal(s[Len(s)])
         ELSE 0

----------------------------------------------------------------------------
(* datetime.strptime: the format is compiled to a regular expression whose *)
(* directives are alternations tried in order, with backtracking; the      *)
(* blank of the format is \s+; re.match takes the first match and the      *)
(* whole text must have been consumed; datetime() then validates ranges.   *)

At(s, p, set) == p <= Len(s) /\ s[p] \in set

D19 == Digits \ {"0"}

\* the longest run of white space that starts at p
RECURSIVE WsRun(_, _)
WsRun(s, p) == IF At(s, p, WhiteSpace) THEN 1 + WsRun(s, p + 1) ELSE 0

\* the run of characters other than a newline that starts at p
RECURSIVE DotRun(_, _)
DotRun(s, p) ==
    IF p <= Len(s) /\ s[p] # "\n" THEN 1 + DotRun(s, p + 1) ELSE 0

\* the run of periods that starts at p
RECURSIVE PeriodRun(_, _)
PeriodRun(s, p) == IF At(s, p, {"."}) THEN 1 + PeriodRun(s, p + 1) ELSE 0

\* The positions after each way element el matches at p, in the order the
\* regular expression tries them.  "%Y".."%S" are the directives of
\* strptime, "\\s+" is greedy white space, ".+?" is the lazy group,
\* "(?:\\.+\\s|$)" ends the pattern of parse_partial_cancellation, and any
\* other element is a literal character (both expressions ignore case).
Cands(el, s, p) ==
    CASE el = "%Y" ->
            IF \A i \in 0..3 : At(s, p + i, Digits) THEN <<p + 4>> ELSE <<>>
      [] el = "%m" ->
            (IF \/ At(s, p, {"1"}) /\ At(s, p + 1, {"0", "1", "2"})
                \/ At(s, p, {"0"}) /\ At(s, p + 1, D19)
             THEN <<p + 2>> ELSE <<>>)
            \o (IF At(s, p, D19) THEN <<p + 1>> ELSE <<>>)
      [] el = "%d" ->
            (IF \/ At(s, p, {"3"}) /\ At(s, p + 1, {"0", "1"})
                \/ At(s, p, {"1", "2"}) /\ At(s, p + 1, Digits)
                \/ At(s, p, {"0"}) /\ At(s, p + 1, D19)
             THEN <<p + 2>> ELSE <<>>)
            \o (IF At(s, p, D19) THEN <<p + 1>> ELSE <<>>)
            \o (IF At(s, p, {" "}) /\ At(s, p + 1, D19) THEN <<p + 2>> ELSE <<>>)
      [] el = "%H" ->
            (IF \/ At(s, p, {"2"}) /\ At(s, p + 1, {"0", "1", "2", "3"})
                \/ At(s, p, {"0", "1"}) /\ At(s, p + 1, Digits)
             THEN <<p + 2>> ELSE <<>>)
            \o (IF At(s, p, Digits) THEN <<p + 1>> ELSE <<>>)
      [] el = "%M" ->
            (IF At(s, p, {"0", "1", "2", "3", "4", "5"}) /\ At(s, p + 1, Digits)
             THEN <<p + 2>> ELSE <<>>)
            \o (IF At(s, p, Digits) THEN <<p + 1>> ELSE <<>>)
      [] el = "%S" ->
            (IF \/ At(s, p, {"6"}) /\ At(s, p + 1, {"0", "1"})
                \/ At(s, p, {"0", "1", "2", "3", "4", "5"}) /\ At(s, p + 1, Digits)
             THEN <<p + 2>> ELSE <<>>)
            \o (IF At(s, p, Digits) THEN <<p + 1>> ELSE <<>>)
      [] el = "\\s+" ->
            LET n == WsRun(s, p) IN [k \in 1..n |-> p + n - k + 1]
      [] el = ".+?" ->
            LET n == DotRun(s, p) IN [k \in 1..n |-> p + k]
      [] el = "(?:\\.+\\s|$)" ->
            LET n == PeriodRun(s, p)
                dots == SelectSeq([k \in 1..n |-> p + n - k + 2],
                                  LAMBDA e : At(s, e - 1, WhiteSpace))
            IN  dots \o (IF p = Len(s) + 1 \/ (p = Len(s) /\ s[p] = "\n")
                         THEN <<p>> ELSE <<>>)
      [] OTHER ->
            IF p <= Len(s) /\ LowerChar(s[p]) = LowerChar(el)
            THEN <<p + 1>> ELSE <<>>

\* "%Y-%m-%d %H:%M:%S" and "%Y-%m-%d %H:%M"
FMT_SECONDS == <<"%Y", "-", "%m", "-", "%d", "\\s+", "%H", ":", "%M", ":", "%S">>
FMT_MINUTES == <<"%Y", "-", "%m", "-", "%d", "\\s+", "%H", ":", "%M">>
FORMATS == <<FMT_SECONDS, FMT_MINUTES>>

RECURSIVE MatchFrom(_, _, _, _)
RECURSIVE TryCands(_, _, _, _, _)
\* re.match of the elements fmt[i..] at position p: the end of every element
MatchFrom(fmt, i, s, p) ==
    IF i > Len(fmt) THEN [ok |-> TRUE, ends |-> <<>>]
    ELSE TryCands(fmt, i, s, Cands(fmt[i], s, p), 1)
TryCands(fmt, i, s, cs, k) ==
    IF k > Len(cs) THEN [ok |-> FALSE, ends |-> <<>>]
    ELSE LET r == MatchFrom(fmt, i + 1, s, cs[k])
         IN  IF r.ok THEN [ok |-> TRUE, ends |-> <<cs[k]>> \o r.ends]
             ELSE TryCands(fmt, i, s, cs, k + 1)

IsLeap(y) == (y % 4 = 0 /\ y % 100 # 0) \/ y % 400 = 0
DaysInMonth(y, m) ==
    IF m = 2 THEN (IF IsLeap(y) THEN 29 ELSE 28)
    ELSE IF m \in {4, 6, 9, 11} THEN 30 ELSE 31

\* the value of "no datetime" (None) and of a ValueError of strptime
NoDT == <<>>

\* datetime.strptime(s, fmt): <<year, month, day, hour, minute, second>>,
\* or NoDT where it raises ValueError
strptime(s, fmt) ==
    LET r == MatchFrom(fmt, 1, s, 1) IN
    IF ~r.ok THEN NoDT
    ELSE IF r.ends[Len(fmt)] # Len(s) + 1 THEN NoDT
    ELSE LET from(i) == IF i = 1 THEN 1 ELSE r.ends[i - 1]
             num(i) == ToInt(SubSeq(s, from(i), r.ends[i] - 1))
             y == num(1)
             mo == num(3)
             d == num(5)
             h == num(7)
             mi == num(9)
             sec == IF Len(fmt) >= 11 THEN num(11) ELSE 0
         IN  IF /\ y >= 1
                /\ mo \in 1..12
                /\ d \in 1..DaysInMonth(y, mo)
                /\ h \in 0..23
                /\ mi \in 0..59
                /\ sec \in 0..59
             THEN <<y, mo, d, h, mi, sec>>
             ELSE NoDT

\* the first format that parses wins
parse_departure_datetime(date_value, time_value) ==
    IF ~isStr(date_value) \/ ~isStr(time_value) THEN NoDT
    ELSE LET text == date_value.s \o <<" ">> \o time_value.s
             first == strptime(text, FORMATS[1])
         IN  IF first # NoDT THEN first ELSE strptime(text, FORMATS[2])

\* a > b of two datetimes
RECURSIVE TupleGt(_, _, _)
TupleGt(a, b, i) ==
    IF i > Len(a) THEN FALSE
    ELSE IF a[i] # b[i] THEN a[i] > b[i]
    ELSE TupleGt(a, b, i + 1)
\* mutant: actual_dt >= planned_dt
DtGreaterOrEqual(a, b) == a = b \/ TupleGt(a, b, 1)

DtGreater(a, b) == TupleGt(a, b, 1)

----------------------------------------------------------------------------
(* The scalar-or-list coercion *)

\* mutant: a single value is not wrapped into a list
listify_drops_scalar(value) ==
    IF value = None THEN <<>>
    ELSE IF isList(value) THEN value.l
    ELSE <<>>

\* listify(value): the Python list, as a sequence
listify(value) ==
    IF value = None THEN <<>>
    ELSE IF isList(value) THEN value.l
    ELSE <<value>>

----------------------------------------------------------------------------
(* Status *)

\* mutant: the delay is looked at before the cancellation
departure_status_delay_first(dep) ==
    LET planned_dt == parse_departure_datetime(Get(dep, "date"), Get(dep, "time"))
        actual_dt == parse_departure_datetime(Get(dep, "rtDate"), Get(dep, "rtTime"))
    IN  IF planned_dt # NoDT /\ actual_dt # NoDT /\ DtGreater(actual_dt, planned_dt)
        THEN "delayed"
        ELSE IF Truthy(GetOr(dep, "cancelled", Bool(FALSE))) THEN "cancelled"
        ELSE "on_time"

\* the status lines of compact_departure_data, the same in both files
departure_status(dep) ==
    LET planned_date == Get(dep, "date")
        planned_time == Get(dep, "time")
        actual_date == Get(dep, "rtDate")
        actual_time == Get(dep, "rtTime")
        cancelled == Truthy(GetOr(dep, "cancelled", Bool(FALSE)))
    IN  IF cancelled THEN "cancelled"
        ELSE LET planned_dt == parse_departure_datetime(planned_date, planned_time)
                 actual_dt == parse_departure_datetime(actual_date, actual_time)
             IN  IF planned_dt # NoDT /\ actual_dt # NoDT
                    /\ DtGreater(actual_dt, planned_dt)
                 THEN "delayed"
                 ELSE "on_time"

----------------------------------------------------------------------------
(* Notes (app.py only) *)

PART_CANCELLED_NOTE_KEY ==
    \* "text.realtime.journey.partially.cancelled.between"
    Str(<<"t", "e", "x", "t", ".", "r", "e", "a", "l", "t",
          "i", "m", "e", ".", "j", "o", "u", "r", "n", "e",
          "y", ".", "p", "a", "r", "t", "i", "a", "l", "l",
          "y", ".", "c", "a", "n", "c", "e", "l", "l", "e",
          "d", ".", "b", "e", "t", "w", "e", "e", "n">>)

NOTE_TEXT_KEYS == <<"txtN", "value", "text">>

RECURSIVE first_note_text(_, _)
first_note_text(note, i) ==
    IF i > Len(NOTE_TEXT_KEYS) THEN None
    ELSE LET value == Get(note, NOTE_TEXT_KEYS[i])
         IN  IF isStr(value) /\ Len(strip(value.s)) > 0
             THEN Str(strip(value.s))
             ELSE first_note_text(note, i + 1)

extract_note_text(note) == first_note_text(note, 1)

\* r"mellem\s+(.+?)\s+og\s+(.+?)(?:\.+\s|$)", flags=re.IGNORECASE
PARTIAL_CANCELLATION_RE ==
    <<"m", "e", "l", "l", "e", "m", "\\s+", ".+?", "\\s+", "o", "g", "\\s+",
      ".+?", "(?:\\.+\\s|$)">>

\* re.search: the match at the leftmost position that has one
RECURSIVE re_search(_, _, _)
re_search(re, s, p) ==
    IF p > Len(s) + 1 THEN [ok |-> FALSE, ends |-> <<>>, start |-> 0]
    ELSE LET r == MatchFrom(re, 1, s, p)
         IN  IF r.ok THEN [ok |-> TRUE, ends |-> r.ends, start |-> p]
             ELSE re_search(re, s, p + 1)

NoMatch == <<>>

\* parse_partial_cancellation(note_text): <<from, to>> or NoMatch (None)
parse_partial_cancellation(note_text) ==
    LET match == re_search(PARTIAL_CANCELLATION_RE, note_text, 1)
    IN  IF ~match.ok THEN NoMatch
        ELSE <<strip(SubSeq(note_text, match.ends[7], match.ends[8] - 1)),
               strip(SubSeq(note_text, match.ends[12], match.ends[13] - 1))>>

\* mutant: the first matching note wins and a later "R" note replaces the message
destination_step_first_wins(acc, note) ==
    IF ~isDict(note) THEN acc
    ELSE LET note_key == Get(note, "key")
             note_type == Get(note, "type")
             note_text == extract_note_text(note)
             acc1 == IF isStr(note_text) /\ note_type = Str(<<"R">>)
                     THEN [acc EXCEPT !.serviceMessage = note_text]
                     ELSE acc
         IN  IF note_key # PART_CANCELLED_NOTE_KEY \/ ~isStr(note_text) THEN acc1
             ELSE LET parsed == parse_partial_cancellation(note_text.s)
                  IN  IF parsed = NoMatch \/ acc.destinationChanged = Bool(TRUE) THEN acc1
                      ELSE [acc1 EXCEPT !.cancelledBetweenFrom = Str(parsed[1]),
                                        !.cancelledBetweenTo = Str(parsed[2]),
                                        !.destinationChanged = Bool(TRUE),
                                        !.actualDirection = Str(parsed[1])]

\* mutant: the key of the note is not looked at, and the direction becomes
\* the "to" name
destination_step_any_key(acc, note) ==
    IF ~isDict(note) THEN acc
    ELSE LET note_type == Get(note, "type")
             note_text == extract_note_text(note)
             acc1 == IF ~Truthy(acc.serviceMessage) /\ isStr(note_text)
                        /\ note_type = Str(<<"R">>)
                     THEN [acc EXCEPT !.serviceMessage = note_text]
                     ELSE acc
         IN  IF ~isStr(note_text) THEN acc1
             ELSE LET parsed == parse_partial_cancellation(note_text.s)
                  IN  IF parsed = NoMatch THEN acc1
                      ELSE [acc1 EXCEPT !.cancelledBetweenFrom = Str(parsed[1]),
                                        !.cancelledBetweenTo = Str(parsed[2]),
                                        !.destinationChanged = Bool(TRUE),
                                        !.actualDirection = Str(parsed[2])]

\* one turn of the loop of extract_destination_update over the notes
destination_step(acc, note) ==
    IF ~isDict(note) THEN acc
    ELSE LET note_key == Get(note, "key")
             note_type == Get(note, "type")
             note_text == extract_note_text(note)
             acc1 == IF ~Truthy(acc.serviceMessage) /\ isStr(note_text)
                        /\ note_type = Str(<<"R">>)
                     THEN [acc EXCEPT !.serviceMessage = note_text]
                     ELSE acc
         IN  IF note_key # PART_CANCELLED_NOTE_KEY \/ ~isStr(note_text) THEN acc1
             ELSE LET parsed == parse_partial_cancellation(note_text.s)
                  IN  IF parsed = NoMatch THEN acc1
                      ELSE [acc1 EXCEPT !.cancelledBetweenFrom = Str(parsed[1]),
                                        !.cancelledBetweenTo = Str(parsed[2]),
                                        !.destinationChanged = Bool(TRUE),
                                        !.actualDirection = Str(parsed[1])]

RECURSIVE destination_loop(_, _, _)
destination_loop(acc, notes, i) ==
    IF i > Len(notes) THEN acc
    ELSE destination_loop(destination_step(acc, notes[i]), notes, i + 1)

extract_destination_update(dep) ==
    LET scheduled_direction == Get(dep, "direction")
        notes == IF isDict(Get(dep, "Notes")) THEN Get(dep, "Notes") ELSE EmptyDict
        start == [scheduledDirection |-> scheduled_direction,
                  actualDirection |-> scheduled_direction,
                  destinationChanged |-> Bool(FALSE),
                  cancelledBetweenFrom |-> None,
                  cancelledBetweenTo |-> None,
                  serviceMessage |-> None]
    IN  destination_loop(start, listify(Get(notes, "Note")), 1)

----------------------------------------------------------------------------
(* Rows *)

\* dep.get("ProductAtStop", {}).get("catOut") if ... is a dict, else None
cat_out_of(dep) ==
    IF isDict(Get(dep, "ProductAtStop"))
    THEN Get(GetOr(dep, "ProductAtStop", EmptyDict), "catOut")
    ELSE None

\* the row fetch_departure_board.py appends for a departure
row_fdb(dep) ==
    [trainId |-> Get(dep, "name"),
     direction |-> Get(dep, "direction"),
     departs |-> Get(dep, "stop"),
     plannedDate |-> Get(dep, "date"),
     plannedTime |-> Get(dep, "time"),
     actualDate |-> Get(dep, "rtDate"),
     actualTime |-> Get(dep, "rtTime"),
     status |-> departure_status(dep)]

\* the row rejseplanen/app.py appends for a departure
row_app(dep) ==
    LET destination_update == extract_destination_update(dep)
    IN  [trainId |-> Get(dep, "name"),
         direction |-> Get(dep, "direction"),
         scheduledDirection |-> destination_update.scheduledDirection,
         actualDirection |-> destination_update.actualDirection,
         destinationChanged |-> destination_update.destinationChanged,
         cancelledBetweenFrom |-> destination_update.cancelledBetweenFrom,
         cancelledBetweenTo |-> destination_update.cancelledBetweenTo,
         partCancelled |-> Bool(Truthy(GetOr(dep, "partCancelled", Bool(FALSE)))),
         serviceMessage |-> destination_update.serviceMessage,
         departs |-> Get(dep, "stop"),
         plannedDate |-> Get(dep, "date"),
         plannedTime |-> Get(dep, "time"),
         actualDate |-> Get(dep, "rtDate"),
         actualTime |-> Get(dep, "rtTime"),
         status |-> departure_status(dep)]

\* the test of rejseplanen/app.py that skips a departure
skipped_by_cat_out(dep, cat_out_filter) ==
    LET cat_out == cat_out_of(dep)
    IN  /\ isStr(cat_out_filter)
        /\ Truthy(cat_out_filter)
        /\ isStr(cat_out)
        /\ lower(cat_out.s) # lower(cat_out_filter.s)

RECURSIVE rows_app(_, _, _)
rows_app(departures, cat_out_filter, i) ==
    IF i > Len(departures) THEN <<>>
    ELSE LET dep == departures[i]
             rest == rows_app(departures, cat_out_filter, i + 1)
         IN  IF ~isDict(dep) THEN rest
             ELSE IF skipped_by_cat_out(dep, cat_out_filter) THEN rest
             ELSE <<row_app(dep)>> \o rest

\* mutant: a Departure that is no list is not wrapped, so no element of it
\* is a mapping
compact_departure_data_app_unwrapped(payload, cat_out_filter) ==
    LET departures == Get(payload, "Departure")
    IN  IF departures = None THEN <<>>
        ELSE rows_app(IF ~isList(departures) THEN <<>> ELSE departures.l,
                      cat_out_filter, 1)

\* rejseplanen/app.py: compact_departure_data(payload, cat_out_filter)
compact_departure_data_app(payload, cat_out_filter) ==
    LET departures == Get(payload, "Departure")
    IN  IF departures = None THEN <<>>
        ELSE rows_app(IF ~isList(departures) THEN <<departures>> ELSE departures.l,
                      cat_out_filter, 1)

RECURSIVE rows_fdb(_, _)
rows_fdb(departures, i) ==
    IF i > Len(departures) THEN <<>>
    ELSE LET dep == departures[i]
             rest == rows_fdb(departures, i + 1)
         IN  IF ~isDict(dep) THEN rest ELSE <<row_fdb(dep)>> \o rest

\* fetch_departure_board.py: compact_departure_data(payload)
compact_departure_data_fdb(payload) ==
    rows_fdb(listify(Get(payload, "Departure")), 1)

----------------------------------------------------------------------------
(* The category filter of fetch_departure_board.py main *)

\* text.split(sep) for a one-character sep
RECURSIVE split(_, _)
split(s, sep) ==
    IF \A i \in 1..Len(s) : s[i] # sep THEN <<s>>
    ELSE LET i == CHOOSE j \in 1..Len(s) :
                     s[j] = sep /\ \A k \in 1..(j - 1) : s[k] # sep
         IN  <<SubSeq(s, 1, i - 1)>> \o split(SubSeq(s, i + 1, Len(s)), sep)

\* {item.strip().lower() for item in cat_out.split(",") if item.strip()}
cat_out_filters(cat_out) ==
    LET items == split(cat_out, ",")
    IN  {lower(strip(items[i])) : i \in {j \in 1..Len(items) : Len(strip(items[j])) > 0}}

kept_by_filters(dep, filters) ==
    /\ isDict(dep)
    /\ isStr(cat_out_of(dep))
    /\ lower(cat_out_of(dep).s) \in filters

\* main, "if args.cat_out:": the payload with its Departure field replaced
filter_payload(payload, cat_out) ==
    IF ~Truthy(cat_out) THEN payload
    ELSE LET filters == cat_out_filters(cat_out.s)
             departures == listify(Get(payload, "Departure"))
             filtered == SelectSeq(departures, LAMBDA dep : kept_by_filters(dep, filters))
         IN  Dict([k \in DOMAIN payload.m \cup {"Departure"} |->
                     IF k = "Departure" THEN List(filtered) ELSE payload.m[k]])

----------------------------------------------------------------------------
(* The envelope *)

\* mutant: the envelope starts with count 0
build_payload_count_zero(items, error, updated) ==
    LET payload == [count |-> 0, items |-> List(<<>>), updated |-> updated,
                    ok |-> FALSE, error |-> None]
    IN  IF Truthy(error)
        THEN [payload EXCEPT !.items = Num(-1), !.error = error]
        ELSE LET values == IF Truthy(items) THEN items ELSE List(<<>>)
             IN  [payload EXCEPT !.count = Len(values.l), !.items = values,
                                 !.ok = TRUE]

\* rejseplanen/app.py: build_payload(items, error); updated is the reading
\* of the clock
build_payload(items, error, updated) ==
    LET payload == [count |-> -1, items |-> List(<<>>), updated |-> updated,
                    ok |-> FALSE, error |-> None]
    IN  IF Truthy(error)
        THEN [payload EXCEPT !.items = Num(-1), !.error = error]
        ELSE LET values == IF Truthy(items) THEN items ELSE List(<<>>)
             IN  [payload EXCEPT !.count = Len(values.l), !.items = values,
                                 !.ok = TRUE]

\* fetch_departure_board.py: build_mqtt_payload(items, error)
build_mqtt_payload(items, error, updated) ==
    LET payload == [count |-> -1, items |-> List(<<>>), updated |-> updated,
                    ok |-> FALSE, error |-> None]
    IN  IF Truthy(error)
        THEN [payload EXCEPT !.items = Num(-1), !.error = error]
        ELSE LET rows == IF Truthy(items) THEN items ELSE List(<<>>)
             IN  [payload EXCEPT !.count = Len(rows.l), !.items = rows,
                                 !.ok = TRUE]

----------------------------------------------------------------------------
(* Bounds of the inputs *)

\* the longest items list handed to the envelope builders
MaxItems == 2
\* the longest list of the Departure field
MaxDepartures == 2
\* the longest list of the Notes.Note field
MaxNotes == 2

----------------------------------------------------------------------------
(* The envelope builders on their own: any items, any error, any clock *)

\* all sequences over S of length at most n
SeqsUpTo(S, n) == UNION {[1..k -> S] : k \in 0..n}

TXT_BOOM == <<"b", "o", "o", "m">>
TXT_IC_1 == <<"I", "C", " ", "1">>
TXT_RE_2 == <<"R", "e", " ", "2">>

SampleRows ==
    {row_fdb(Dict([name |-> Str(TXT_IC_1)])),
     row_fdb(Dict([name |-> Str(TXT_RE_2), cancelled |-> Bool(TRUE)]))}

ItemsArgs == {None} \cup {List(l) : l \in SeqsUpTo(SampleRows, MaxItems)}
ErrorArgs == {None, Str(<<>>), Str(TXT_BOOM)}
Clock == {"2024-05-01T10:00:00+02:00", "2024-05-01T10:00:01+02:00"}

InitEnvelope ==
    /\ op = "input"
    /\ variant = "none"
    /\ arg \in [items : ItemsArgs, error : ErrorArgs]
    /\ ret = None
    /\ NoRun

\* rejseplanen/app.py: a call build_payload(items=..., error=...)
CallBuildPayload ==
    /\ op = "input"
    /\ \E updated \in Clock :
          ret' = build_payload(arg.items, arg.error, updated)
    /\ op' = "envelope"
    /\ variant' = "app"
    /\ UNCHANGED <<arg, mainVars>>

\* fetch_departure_board.py: a call build_mqtt_payload(items=..., error=...)
CallBuildMqttPayload ==
    /\ op = "input"
    /\ \E updated \in Clock :
          ret' = build_mqtt_payload(arg.items, arg.error, updated)
    /\ op' = "envelope"
    /\ variant' = "fdb"
    /\ UNCHANGED <<arg, mainVars>>

NextEnvelope == CallBuildPayload \/ CallBuildMqttPayload

SpecEnvelope == InitEnvelope /\ [][NextEnvelope]_vars

\* C1: every envelope a builder returns has ok = True exactly when its error
\* is null, and its error null exactly when its count is not negative.
C1_OkIffNoErrorIffCount ==
    op = "envelope" =>
        /\ (ret.ok = TRUE) <=> (ret.error = None)
        /\ (ret.error = None) <=> (ret.count >= 0)

\* C1 witness: both builders returned, one an error envelope although items
\* were given too, the other a success envelope.
C1_Witness ==
    /\ op = "envelope"
    /\ variant = "app"
    /\ arg.items # None /\ arg.error = Str(TXT_BOOM)
    /\ ret.ok = FALSE /\ ret.count < 0 /\ ret.error # None

\* C2: a builder called with an error message returns count < 0, the items
\* sentinel -1 and a non-null error; called without one it returns
\* count = len(items) >= 0, the given items in order and a null error.
C2_ErrorAndSuccessEnvelopes ==
    op = "envelope" =>
        /\ isStr(arg.error) =>
              ret.count < 0 /\ ret.items = Num(-1) /\ ret.error # None
        /\ arg.error = None =>
              /\ ret.count = Len(IF arg.items = None THEN <<>> ELSE arg.items.l)
              /\ ret.count >= 0
              /\ ret.items = List(IF arg.items = None THEN <<>> ELSE arg.items.l)
              /\ ret.error = None

----------------------------------------------------------------------------
(* The status of one departure: any date, time, rtDate, rtTime, cancelled *)

\* a key the mapping does not hold
Absent == [t |-> "absent"]

\* the dict of the fields that are present
MkDict(f) == Dict([k \in {x \in DOMAIN f : f[x] # Absent} |-> f[k]])

\* the texts of a calendar day and of a time of day, zero-padded or not,
\* with or without seconds
TwoDigits(n, pad) ==
    IF n < 10 /\ ~pad THEN <<DigitChar[n + 1]>>
    ELSE <<DigitChar[(n \div 10) + 1], DigitChar[(n % 10) + 1]>>
FourDigits(n) ==
    <<DigitChar[(n \div 1000) + 1], DigitChar[((n \div 100) % 10) + 1],
      DigitChar[((n \div 10) % 10) + 1], DigitChar[(n % 10) + 1]>>
DateText(day, pad) ==
    FourDigits(day[1]) \o <<"-">> \o TwoDigits(day[2], pad)
        \o <<"-">> \o TwoDigits(day[3], pad)
TimeText(tod, seconds, pad) ==
    TwoDigits(tod[1], pad) \o <<":">> \o TwoDigits(tod[2], pad)
        \o (IF seconds THEN <<":">> \o TwoDigits(tod[3], TRUE) ELSE <<>>)

SampleDays == {<<2024, 5, 1>>, <<2024, 5, 2>>}
SampleTimes == {<<10, 0, 0>>, <<10, 5, 0>>, <<9, 55, 0>>, <<10, 0, 30>>}

\* <<text, day>>: the day each well-formed date text of the inputs means
DateMeaning ==
    {<<DateText(day, pad), day>> : day \in SampleDays, pad \in BOOLEAN}
\* <<text, time of day>>: without seconds only a whole minute is written
TimeMeaning ==
    {<<TimeText(tod, TRUE, TRUE), tod>> : tod \in SampleTimes}
    \cup {<<TimeText(tod, FALSE, pad), tod>> :
             tod \in {x \in SampleTimes : x[3] = 0}, pad \in BOOLEAN}

TXT_FEB_30 == <<"2", "0", "2", "4", "-", "0", "2", "-", "3", "0">>
TXT_DOTTED_DATE == <<"0", "1", ".", "0", "5", ".", "2", "0", "2", "4">>
TXT_HOUR_25 == <<"2", "5", ":", "0", "0">>
TXT_SECOND_60 == <<"1", "0", ":", "0", "0", ":", "6", "0">>
TXT_FALSE == <<"f", "a", "l", "s", "e">>

\* texts no format of parse_departure_datetime accepts
MalformedDates == {<<>>, TXT_FEB_30, TXT_DOTTED_DATE}
MalformedTimes == {<<>>, TXT_HOUR_25, TXT_SECOND_60}

DateValues ==
    {Absent, Num(20240501)}
    \cup {Str(x[1]) : x \in DateMeaning} \cup {Str(x) : x \in MalformedDates}
TimeValues ==
    {Absent, None}
    \cup {Str(x[1]) : x \in TimeMeaning} \cup {Str(x) : x \in MalformedTimes}
TruthyCancelled == {Bool(TRUE), Str(TXT_FALSE)}
FalsyCancelled == {Absent, Bool(FALSE)}

InitStatus ==
    /\ op = "input"
    /\ variant = "none"
    /\ \E f \in [date : DateValues, time : TimeValues,
                 rtDate : DateValues, rtTime : TimeValues,
                 cancelled : TruthyCancelled \cup FalsyCancelled] :
          arg = MkDict(f)
    /\ ret = None
    /\ NoRun

\* rejseplanen/app.py on a payload whose Departure is the one departure
ClassifyApp ==
    /\ op = "input"
    /\ ret' = compact_departure_data_app(Dict([Departure |-> arg]), None)
    /\ op' = "rows"
    /\ variant' = "app"
    /\ UNCHANGED <<arg, mainVars>>

\* fetch_departure_board.py on a payload whose Departure is the one departure
ClassifyFdb ==
    /\ op = "input"
    /\ ret' = compact_departure_data_fdb(Dict([Departure |-> arg]))
    /\ op' = "rows"
    /\ variant' = "fdb"
    /\ UNCHANGED <<arg, mainVars>>

NextStatus == ClassifyApp \/ ClassifyFdb

SpecStatus == InitStatus /\ [][NextStatus]_vars

\* C3: a departure whose cancelled field is truthy gets the status
\* "cancelled" in both variants, whatever its date and time fields are.
C3_CancelledWins ==
    (op = "rows" /\ Get(arg, "cancelled") \in TruthyCancelled) =>
        Len(ret) = 1 /\ ret[1].status = "cancelled"

\* C3 witness: a cancelled departure whose real time is later than planned
C3_Witness ==
    /\ op = "rows"
    /\ variant = "fdb"
    /\ Get(arg, "cancelled") = Str(TXT_FALSE)
    /\ Get(arg, "date") = Str(DateText(<<2024, 5, 1>>, TRUE))
    /\ Get(arg, "time") = Str(TimeText(<<10, 0, 0>>, FALSE, TRUE))
    /\ Get(arg, "rtDate") = Str(DateText(<<2024, 5, 1>>, TRUE))
    /\ Get(arg, "rtTime") = Str(TimeText(<<10, 5, 0>>, FALSE, TRUE))
    /\ ret[1].status = "cancelled"

\* the moments <<day, time of day>> a (date, time) pair of values means
MomentsOf(date_value, time_value) ==
    {<<d[2], x[2]>> : d \in {y \in DateMeaning : date_value = Str(y[1])},
                      x \in {y \in TimeMeaning : time_value = Str(y[1])}}

\* seconds since the start of the month of the sample days
SecondsOf(moment) ==
    ((moment[1][3] * 24 + moment[2][1]) * 60 + moment[2][2]) * 60 + moment[2][3]

\* C4: a departure that is not cancelled is "delayed" exactly when its
\* planned pair and its actual pair both are well-formed texts of a moment
\* and the actual moment is strictly later; otherwise it is "on_time".
C4_DelayedIffStrictlyLater ==
    (op = "rows" /\ Get(arg, "cancelled") \notin TruthyCancelled) =>
        LET planned == MomentsOf(Get(arg, "date"), Get(arg, "time"))
            actual == MomentsOf(Get(arg, "rtDate"), Get(arg, "rtTime"))
            later == \E p \in planned, a \in actual : SecondsOf(a) > SecondsOf(p)
        IN  /\ Len(ret) = 1
            /\ ret[1].status = (IF later THEN "delayed" ELSE "on_time")

\* C4 witness: planned 10:00 and actual 10:05 of the same day, delayed
C4_Witness ==
    /\ op = "rows"
    /\ variant = "app"
    /\ "cancelled" \notin DOMAIN arg.m
    /\ Get(arg, "date") = Str(DateText(<<2024, 5, 1>>, TRUE))
    /\ Get(arg, "time") = Str(TimeText(<<10, 0, 0>>, FALSE, TRUE))
    /\ Get(arg, "rtDate") = Str(DateText(<<2024, 5, 1>>, TRUE))
    /\ Get(arg, "rtTime") = Str(TimeText(<<10, 5, 0>>, FALSE, TRUE))
    /\ ret[1].status = "delayed"

----------------------------------------------------------------------------
(* Normalising and filtering: any shape of the Departure field, any filter *)

TXT_RE == <<"R", "e">>
TXT_RE_LOWER == <<"r", "e">>
TXT_IC == <<"I", "C">>
TXT_IC_LOWER == <<"i", "c">>
TXT_IC_RE == <<"I", "C", ",", "R", "e">>
TXT_IC_RE_SPACED == <<" ", "i", "c", " ", ",", " ", "R", "E", " ">>
TXT_COMMA == <<",">>
TXT_RE_3 == <<"r", "e", " ", "3">>
TXT_BUS_4 == <<"B", "u", "s", " ", "4">>
TXT_BUS_5 == <<"B", "u", "s", " ", "5">>
TXT_BUS_6 == <<"B", "u", "s", " ", "6">>
TXT_JUNK == <<"j", "u", "n", "k">>

DEP_IC == Dict([name |-> Str(TXT_IC_1), ProductAtStop |-> Dict([catOut |-> Str(TXT_IC)])])
DEP_RE == Dict([name |-> Str(TXT_RE_2), ProductAtStop |-> Dict([catOut |-> Str(TXT_RE)])])
DEP_RE_LOWER ==
    Dict([name |-> Str(TXT_RE_3), ProductAtStop |-> Dict([catOut |-> Str(TXT_RE_LOWER)])])
\* no ProductAtStop; a ProductAtStop that is no mapping; a catOut that is no string
DEP_NO_PRODUCT == Dict([name |-> Str(TXT_BUS_4)])
DEP_PRODUCT_TEXT == Dict([name |-> Str(TXT_BUS_5), ProductAtStop |-> Str(TXT_RE)])
DEP_CAT_NUMBER ==
    Dict([name |-> Str(TXT_BUS_6), ProductAtStop |-> Dict([catOut |-> Num(7)])])

DepartureMappings ==
    {DEP_IC, DEP_RE, DEP_RE_LOWER, DEP_NO_PRODUCT, DEP_PRODUCT_TEXT, DEP_CAT_NUMBER}
\* what a Departure list may hold besides mappings
DepartureElements == DepartureMappings \cup {Str(TXT_JUNK), None}

DepartureValues ==
    {Absent, None, Str(TXT_JUNK), Num(0)}
    \cup DepartureMappings
    \cup {List(l) : l \in SeqsUpTo(DepartureElements, MaxDepartures)}

\* the values of --cat-out
CatOutValues ==
    {None, Str(<<>>), Str(TXT_RE), Str(TXT_IC_RE), Str(TXT_IC_RE_SPACED), Str(TXT_COMMA)}

InitCompact ==
    /\ op = "input"
    /\ variant = "none"
    /\ \E d \in DepartureValues, c \in CatOutValues :
          arg = [payload |-> MkDict([Departure |-> d]), cat_out |-> c]
    /\ ret = None
    /\ NoRun

\* rejseplanen/app.py main: compact_departure_data(raw, cat_out_filter=args.cat_out)
CompactApp ==
    /\ op = "input"
    /\ ret' = compact_departure_data_app(arg.payload, arg.cat_out)
    /\ op' = "rows"
    /\ variant' = "app"
    /\ UNCHANGED <<arg, mainVars>>

\* fetch_departure_board.py main: the filter, then compact_departure_data(payload)
CompactFdb ==
    /\ op = "input"
    /\ ret' = compact_departure_data_fdb(filter_payload(arg.payload, arg.cat_out))
    /\ op' = "rows"
    /\ variant' = "fdb"
    /\ UNCHANGED <<arg, mainVars>>

NextCompact == CompactApp \/ CompactFdb

SpecCompact == InitCompact /\ [][NextCompact]_vars

\* the elements of the Departure field of the input: none for an absent or
\* null field, the value itself for a single value, the elements of a list
DepartureElems ==
    LET d == Get(arg.payload, "Departure")
    IN  IF d = None THEN <<>> ELSE IF d.t = "list" THEN d.l ELSE <<d>>

DepartureMaps == SelectSeq(DepartureElems, LAMBDA d : d \in DepartureMappings)

NoFilter == arg.cat_out \in {None, Str(<<>>)}

\* C5: with no category filter there is exactly one row per mapping of the
\* Departure field, in the original order; non-mappings are dropped.
C5_OneRowPerMapping ==
    (op = "rows" /\ NoFilter) =>
        /\ Len(ret) = Len(DepartureMaps)
        /\ \A i \in 1..Len(ret) :
              /\ ret[i].trainId = Get(DepartureMaps[i], "name")
              /\ ret[i].status = "on_time"

\* C5 witness: a list of a non-mapping and a mapping gave the one row of the
\* mapping, in fetch_departure_board.py
C5_Witness ==
    /\ op = "rows"
    /\ variant = "fdb"
    /\ arg.cat_out = None
    /\ Get(arg.payload, "Departure") = List(<<Str(TXT_JUNK), DEP_RE>>)
    /\ Len(ret) = 1
    /\ ret[1].trainId = Str(TXT_RE_2)

\* the rows of a variant for a payload and a --cat-out value
RowsOf(v, payload, cat_out) ==
    IF v = "app" THEN compact_departure_data_app(payload, cat_out)
    ELSE compact_departure_data_fdb(filter_payload(payload, cat_out))

\* C6: the rows of a payload whose Departure is the mapping d repeated in a
\* list are, element by element, the one row of the payload whose Departure
\* is d itself.
C6_ScalarListEquivalence ==
    (op = "rows" /\ Get(arg.payload, "Departure") \in DepartureMappings) =>
        /\ NoFilter => Len(ret) = 1
        /\ \A n \in 1..MaxDepartures :
              LET d == Get(arg.payload, "Departure")
                  listed == RowsOf(variant, Dict([Departure |-> List([i \in 1..n |-> d])]),
                                   arg.cat_out)
              IN  /\ Len(listed) = n * Len(ret)
                  /\ \A i \in 1..Len(listed) : listed[i] = ret[1]

\* C6 witness: a single mapping gave one row in fetch_departure_board.py
C6_Witness ==
    /\ op = "rows"
    /\ variant = "fdb"
    /\ Get(arg.payload, "Departure") = DEP_IC
    /\ arg.cat_out = None
    /\ Len(ret) = 1
    /\ ret[1].trainId = Str(TXT_IC_1)

\* the category of each sample departure in lower case; <<>> where it has
\* no usable category
CategoryOf(dep) ==
    CASE dep = DEP_IC -> TXT_IC_LOWER
      [] dep = DEP_RE -> TXT_RE_LOWER
      [] dep = DEP_RE_LOWER -> TXT_RE_LOWER
      [] OTHER -> <<>>

\* the codes a --cat-out value of one or more codes asks for, in lower case
RequestedCodes ==
    CASE arg.cat_out = Str(TXT_RE) -> {TXT_RE_LOWER}
      [] arg.cat_out = Str(TXT_IC_RE) -> {TXT_IC_LOWER, TXT_RE_LOWER}
      [] OTHER -> {}

\* C7: with a filter of one or more codes the rows are exactly those of the
\* departures whose catOut is one of the codes ignoring case, in the
\* original order, in both variants.
C7_FilterKeepsExactlyMatching ==
    (op = "rows" /\ RequestedCodes # {}) =>
        LET kept == SelectSeq(DepartureMaps, LAMBDA d : CategoryOf(d) \in RequestedCodes)
        IN  /\ Len(ret) = Len(kept)
            /\ \A i \in 1..Len(ret) : ret[i].trainId = Get(kept[i], "name")

\* C8: with a non-empty filter no row comes from a departure that has no
\* usable category, in both variants.
C8_FilterDropsUncategorised ==
    (op = "rows" /\ isStr(arg.cat_out) /\ Len(arg.cat_out.s) > 0) =>
        \A i \in 1..Len(ret) :
            \A d \in DepartureMappings :
                ret[i].trainId = Get(d, "name") => CategoryOf(d) # <<>>

----------------------------------------------------------------------------
(* The notes of one departure: any shape of Notes, any list of notes *)

TXT_OTHER == <<"o", "t", "h", "e", "r">>
TXT_AARHUS == <<"A", "a", "r", "h", "u", "s", " ", "H">>
TXT_A == <<"A">>
TXT_B == <<"B">>
TXT_C == <<"C">>
TXT_D == <<"D">>
TXT_MELLEM_A_B == <<"m", "e", "l", "l", "e", "m", " ", "A", " ", "o", "g", " ", "B">>
TXT_MELLEM_C_D == <<"A", "f", "l", "y", "s", "t", " ", "m", "e", "l", "l", "e", "m", " ", "C", " ", "o", "g", " ", "D", ".", ".", " ", "B", "e", "k", "l", "a", "g", "e", "r">>
TXT_MELLEM_E_F == <<"m", "e", "l", "l", "e", "m", " ", "E", " ", "o", "g", " ", "F">>
TXT_MELLEM_G_H == <<"m", "e", "l", "l", "e", "m", " ", "G", " ", "o", "g", " ", "H">>
TXT_AFLYST == <<"a", "f", "l", "y", "s", "t">>
TXT_TRACK_PADDED == <<" ", "S", "p", "o", "r", "a", "r", "b", "e", "j", "d", "e", " ">>
TXT_TRACK == <<"S", "p", "o", "r", "a", "r", "b", "e", "j", "d", "e">>
TXT_LATE == <<"F", "o", "r", "s", "i", "n", "k", "e", "t">>
TXT_BLANKS == <<" ", " ">>

NOTE_A_B == Dict([key |-> PART_CANCELLED_NOTE_KEY, txtN |-> Str(TXT_MELLEM_A_B)])
NOTE_C_D ==
    Dict([key |-> PART_CANCELLED_NOTE_KEY, type |-> Str(<<"R">>),
          value |-> Str(TXT_MELLEM_C_D)])
NOTE_NO_PATTERN == Dict([key |-> PART_CANCELLED_NOTE_KEY, text |-> Str(TXT_AFLYST)])
NOTE_R_TRACK ==
    Dict([key |-> Str(TXT_OTHER), type |-> Str(<<"R">>), txtN |-> Str(TXT_TRACK_PADDED)])
NOTE_R_LATE ==
    Dict([type |-> Str(<<"R">>), txtN |-> Str(TXT_BLANKS), text |-> Str(TXT_LATE)])
NOTE_R_BLANK == Dict([type |-> Str(<<"R">>), txtN |-> Str(<<>>)])
NOTE_OTHER_KEY ==
    Dict([key |-> Str(TXT_OTHER), type |-> Str(<<"A">>), txtN |-> Str(TXT_MELLEM_E_F)])
\* a note that is no mapping
NOTE_BARE_TEXT == Str(TXT_MELLEM_G_H)

NoteElements ==
    {NOTE_A_B, NOTE_C_D, NOTE_NO_PATTERN, NOTE_R_TRACK, NOTE_R_LATE,
     NOTE_R_BLANK, NOTE_OTHER_KEY, NOTE_BARE_TEXT}

NotesValues ==
    {Absent, Str(TXT_AFLYST), EmptyDict, Dict([Note |-> None])}
    \cup {Dict([Note |-> n]) : n \in NoteElements}
    \cup {Dict([Note |-> List(l)]) : l \in SeqsUpTo(NoteElements, MaxNotes)}

DirectionValues == {Absent, Str(TXT_AARHUS)}

InitNotes ==
    /\ op = "input"
    /\ variant = "none"
    /\ \E f \in [direction : DirectionValues, Notes : NotesValues] :
          arg = MkDict(f)
    /\ ret = None
    /\ NoRun

\* rejseplanen/app.py on a payload whose Departure is the one departure
AnnotateApp ==
    /\ op = "input"
    /\ ret' = compact_departure_data_app(Dict([Departure |-> arg]), None)
    /\ op' = "rows"
    /\ variant' = "app"
    /\ UNCHANGED <<arg, mainVars>>

NextNotes == AnnotateApp

SpecNotes == InitNotes /\ [][NextNotes]_vars

\* the notes of the input departure, in order
NotesOf ==
    LET notes == Get(arg, "Notes")
        note == IF notes.t = "map" THEN Get(notes, "Note") ELSE None
    IN  IF note = None THEN <<>> ELSE IF note.t = "list" THEN note.l ELSE <<note>>

\* <<from, to>> for the sample notes that have the partial-cancellation key
\* and a text that matches the pattern; <<>> for the others
CancellationOf(note) ==
    CASE note = NOTE_A_B -> <<TXT_A, TXT_B>>
      [] note = NOTE_C_D -> <<TXT_C, TXT_D>>
      [] OTHER -> <<>>

\* the text of the sample notes of type "R" that have a text; <<>> for the
\* others
MessageOf(note) ==
    CASE note = NOTE_C_D -> TXT_MELLEM_C_D
      [] note = NOTE_R_TRACK -> TXT_TRACK
      [] note = NOTE_R_LATE -> TXT_LATE
      [] OTHER -> <<>>

CancellationNotes == {i \in 1..Len(NotesOf) : CancellationOf(NotesOf[i]) # <<>>}
MessageNotes == {i \in 1..Len(NotesOf) : MessageOf(NotesOf[i]) # <<>>}
Last(S) == CHOOSE i \in S : \A j \in S : j <= i
First(S) == CHOOSE i \in S : \A j \in S : i <= j

\* C9: of several notes the last matching partial-cancellation note gives
\* cancelledBetweenFrom, cancelledBetweenTo and actualDirection, and the
\* first "R" note that has a text gives serviceMessage.
C9_LastCancellationFirstMessage ==
    op = "rows" =>
        /\ Len(ret) = 1
        /\ CancellationNotes # {} =>
              LET names == CancellationOf(NotesOf[Last(CancellationNotes)])
              IN  /\ ret[1].cancelledBetweenFrom = Str(names[1])
                  /\ ret[1].cancelledBetweenTo = Str(names[2])
                  /\ ret[1].actualDirection = Str(names[1])
        /\ MessageNotes # {} =>
              ret[1].serviceMessage = Str(MessageOf(NotesOf[First(MessageNotes)]))
        /\ MessageNotes = {} => ret[1].serviceMessage = None

\* C9 witness: two matching notes and two "R" notes with a text, in the
\* order that tells first from last
C9_Witness ==
    /\ op = "rows"
    /\ NotesOf = <<NOTE_C_D, NOTE_A_B>>
    /\ ret[1].cancelledBetweenFrom = Str(TXT_A)
    /\ ret[1].serviceMessage = Str(TXT_MELLEM_C_D)

\* C10: without a matching partial-cancellation note actualDirection is
\* scheduledDirection, destinationChanged is false and the two names are
\* null; with one, destinationChanged is true, the two names are those of
\* a matching note and actualDirection is cancelledBetweenFrom.
C10_DestinationChange ==
    op = "rows" =>
        /\ ret[1].scheduledDirection = Get(arg, "direction")
        /\ CancellationNotes = {} =>
              /\ ret[1].actualDirection = ret[1].scheduledDirection
              /\ ret[1].destinationChanged = Bool(FALSE)
              /\ ret[1].cancelledBetweenFrom = None
              /\ ret[1].cancelledBetweenTo = None
        /\ CancellationNotes # {} =>
              /\ ret[1].destinationChanged = Bool(TRUE)
              /\ \E i \in CancellationNotes :
                    /\ ret[1].cancelledBetweenFrom = Str(CancellationOf(NotesOf[i])[1])
                    /\ ret[1].cancelledBetweenTo = Str(CancellationOf(NotesOf[i])[2])
              /\ ret[1].actualDirection = ret[1].cancelledBetweenFrom

\* C10 witness: a departure to Aarhus H with a matching note followed by a
\* note whose pattern text is under another key
C10_Witness ==
    /\ op = "rows"
    /\ Get(arg, "direction") = Str(TXT_AARHUS)
    /\ NotesOf = <<NOTE_A_B, NOTE_OTHER_KEY>>
    /\ ret[1].destinationChanged = Bool(TRUE)
    /\ ret[1].actualDirection = Str(TXT_A)

\* ---------------------------------------------------------------------
\* Partial-cancellation texts: a note under the partial-cancellation key
\* whose text is put together from a lead-in, the word for between, a
\* first name, the word for and, a second name, a terminator and a rest
\* ---------------------------------------------------------------------

TXT_LEAD_IN == <<"T", "o", "g", "e", "t", " ", "e", "r", " ", "a", "n", "n", "u", "l", "l", "e", "r", "e", "t", " ">>
TXT_MELLEM == <<"m", "e", "l", "l", "e", "m">>
TXT_MELLEM_CAPITAL == <<"M", "e", "l", "l", "e", "m">>
TXT_OG == <<"o", "g">>
TXT_OG_UPPER == <<"O", "G">>
TXT_BLANK == <<" ">>
TXT_BLANK_TAB == <<" ", "\t">>
TXT_KOEBENHAVN == <<"K", "ø", "b", "e", "n", "h", "a", "v", "n", " ", "H">>
TXT_KBH_ABBREVIATED == <<"K", "b", "h", ".", " ", "H">>
TXT_OESTERPORT == <<"Ø", "s", "t", "e", "r", "p", "o", "r", "t", " ", "S", "t">>
TXT_PERIOD_BLANK == <<".", " ">>
TXT_PERIODS_BLANK == <<".", ".", " ">>
TXT_PERIODS_NEWLINE == <<".", ".", ".", "\n">>
TXT_REGRET == <<"V", "i", " ", "b", "e", "k", "l", "a", "g", "e", "r", ".">>
TXT_ELLIPSIS == <<".", ".", ".">>
TXT_ELLIPSIS_CANCELLED == <<".", ".", ".", " ", "a", "n", "n", "u", "l", "l", "e", "r", "e", "t", " ">>

LeadIns == {<<>>, TXT_LEAD_IN, TXT_ELLIPSIS_CANCELLED}
BetweenWords == {TXT_MELLEM, TXT_MELLEM_CAPITAL}
AndWords == {TXT_OG, TXT_OG_UPPER}
Gaps == {TXT_BLANK, TXT_BLANK_TAB}
FirstNames == {TXT_KOEBENHAVN, TXT_A, TXT_KBH_ABBREVIATED}
SecondNames == {TXT_OESTERPORT, TXT_B}
\* one or more periods followed by white space; the empty terminator is
\* the end of the text
Terminators == {TXT_PERIOD_BLANK, TXT_PERIODS_BLANK, TXT_PERIODS_NEWLINE, <<>>}
Rests == {<<>>, TXT_REGRET, TXT_ELLIPSIS}

PatternParts ==
    {p \in [lead : LeadIns, between : BetweenWords, gap : Gaps,
            x : FirstNames, and : AndWords, y : SecondNames,
            term : Terminators, rest : Rests] :
        p.term = <<>> => p.rest = <<>>}

PatternText(p) ==
    p.lead \o p.between \o p.gap \o p.x \o p.gap \o p.and \o p.gap \o p.y
        \o p.term \o p.rest

PatternDeparture(p) ==
    Dict([direction |-> Str(TXT_AARHUS),
          Notes |-> Dict([Note |-> Dict([key |-> PART_CANCELLED_NOTE_KEY,
                                         txtN |-> Str(PatternText(p))])])])

InitPattern ==
    /\ op = "input"
    /\ variant = "none"
    /\ arg \in PatternParts
    /\ ret = None
    /\ NoRun

\* rejseplanen/app.py on a payload whose Departure is the one departure
\* carrying the note
AnnotatePattern ==
    /\ op = "input"
    /\ ret' = compact_departure_data_app(Dict([Departure |-> PatternDeparture(arg)]), None)
    /\ op' = "rows"
    /\ variant' = "app"
    /\ UNCHANGED <<arg, mainVars>>

NextPattern == AnnotatePattern

SpecPattern == InitPattern /\ [][NextPattern]_vars

\* C11: a note with the partial-cancellation key and a text
\* "... mellem X og Y.. ..." (periods followed by white space, or the end
\* of the text, after the second name) gives cancelledBetweenFrom = X and
\* cancelledBetweenTo = Y, without the terminating periods, marks the
\* destination as changed and makes X the actual direction
C11_PatternYieldsNames ==
    op = "rows" =>
        /\ ret[1].cancelledBetweenFrom = Str(arg.x)
        /\ ret[1].cancelledBetweenTo = Str(arg.y)
        /\ ret[1].destinationChanged = Bool(TRUE)
        /\ ret[1].actualDirection = Str(arg.x)

\* ---------------------------------------------------------------------
\* The run of main in both programs: the command line, the access id, the
\* HTTP fetch, the error paths, the MQTT publish, what is printed and the
\* exit code
\* ---------------------------------------------------------------------

TXT_MQTT_REQUIRES_COMPACT == <<"-", "-", "m", "q", "t", "t", "-", "o", "n", " ", "r", "e", "q", "u", "i", "r", "e", "s", " ", "-", "-", "c", "o", "m", "p", "a", "c", "t", "-", "d", "a", "t", "a">>
TXT_MQTT_REQUIRES_COMPACT_FDB == <<"-", "-", "m", "q", "t", "t", "-", "o", "n", " ", "r", "e", "q", "u", "i", "r", "e", "s", " ", "-", "-", "c", "o", "m", "p", "a", "c", "t", "-", "d", "a", "t", "a", ".">>
TXT_MISSING_ACCESS_ID == <<"M", "i", "s", "s", "i", "n", "g", " ", "R", "E", "J", "S", "E", "P", "L", "A", "N", "E", "N", "_", "A", "C", "C", "E", "S", "S", "_", "I", "D">>
TXT_MISSING_ACCESS_ID_FDB == <<"M", "i", "s", "s", "i", "n", "g", " ", "a", "c", "c", "e", "s", "s", "I", "d", ".", " ", "P", "a", "s", "s", " ", "-", "-", "a", "c", "c", "e", "s", "s", "-", "i", "d", ",", " ", "s", "e", "t", " ", "R", "E", "J", "S", "E", "P", "L", "A", "N", "E", "N", "_", "A", "C", "C", "E", "S", "S", "_", "I", "D", ",", " ", "o", "r", " ", "a", "d", "d", " ", "i", "t", " ", "i", "n", " ", "$", "e", "n", "v", "/", ".", "e", "n", "v", ".">>
TXT_REQUEST_TIMED_OUT == <<"R", "e", "q", "u", "e", "s", "t", " ", "t", "i", "m", "e", "d", " ", "o", "u", "t", ".">>
TXT_NETWORK_ERROR == <<"N", "e", "t", "w", "o", "r", "k", " ", "e", "r", "r", "o", "r", ":", " ">>
TXT_FAILED_TO_DECODE == <<"F", "a", "i", "l", "e", "d", " ", "t", "o", " ", "d", "e", "c", "o", "d", "e", " ", "A", "P", "I", " ", "r", "e", "s", "p", "o", "n", "s", "e", " ", "a", "s", " ", "J", "S", "O", "N", ":", " ">>
TXT_HTTP_ERROR_FDB == <<"H", "T", "T", "P", " ", "e", "r", "r", "o", "r", ":", " ">>
TXT_HTTP_ERROR == <<"H", "T", "T", "P", " ", "E", "r", "r", "o", "r", " ">>
TXT_URLOPEN_ERROR == <<"<", "u", "r", "l", "o", "p", "e", "n", " ", "e", "r", "r", "o", "r", " ">>
TXT_503 == <<"5", "0", "3">>
TXT_SERVICE_UNAVAILABLE == <<"S", "e", "r", "v", "i", "c", "e", " ", "U", "n", "a", "v", "a", "i", "l", "a", "b", "l", "e">>
TXT_DENIED == <<"d", "e", "n", "i", "e", "d">>
TXT_TIMED_OUT == <<"t", "i", "m", "e", "d", " ", "o", "u", "t">>
TXT_EXPECTING_VALUE == <<"E", "x", "p", "e", "c", "t", "i", "n", "g", " ", "v", "a", "l", "u", "e", ":", " ", "l", "i", "n", "e", " ", "1", " ", "c", "o", "l", "u", "m", "n", " ", "1", " ", "(", "c", "h", "a", "r", " ", "0", ")">>
TXT_CONNECTION_RESET == <<"[", "E", "r", "r", "n", "o", " ", "1", "0", "4", "]", " ", "C", "o", "n", "n", "e", "c", "t", "i", "o", "n", " ", "r", "e", "s", "e", "t", " ", "b", "y", " ", "p", "e", "e", "r">>
TXT_CONNECTION_REFUSED == <<"[", "E", "r", "r", "n", "o", " ", "1", "1", "1", "]", " ", "C", "o", "n", "n", "e", "c", "t", "i", "o", "n", " ", "r", "e", "f", "u", "s", "e", "d">>
TXT_MISSING_MQTT_HOST == <<"M", "i", "s", "s", "i", "n", "g", " ", "M", "Q", "T", "T", "_", "H", "O", "S", "T">>
TXT_API_AUTH == <<"A", "P", "I", "_", "A", "U", "T", "H">>
TXT_ACCESS_DENIED == <<"a", "c", "c", "e", "s", "s", " ", "d", "e", "n", "i", "e", "d">>
TXT_ACCESS_ID == <<"s", "e", "c", "r", "e", "t">>
TXT_ERROR_CODE == <<"e", "r", "r", "o", "r", "C", "o", "d", "e">>
TXT_ERROR_TEXT == <<"e", "r", "r", "o", "r", "T", "e", "x", "t">>

\* An exception: its class, the text of its message (reason for a
\* URLError, msg for an HTTPError) and, for an HTTPError, its status code
\* and the body that exc.read() gives
Exception(cls, text) == [cls |-> cls, text |-> text, code |-> <<>>, body |-> <<>>]
HTTPError(code, text, body) == [cls |-> "HTTPError", text |-> text, code |-> code, body |-> body]

\* what urlopen / json.loads raise in fetch_departure_board; a time-out
\* may carry no message at all, and a connection reset while the response
\* is read is an OSError that is no URLError
FetchExceptions ==
    {HTTPError(TXT_503, TXT_SERVICE_UNAVAILABLE, <<>>),
     HTTPError(TXT_503, TXT_SERVICE_UNAVAILABLE, TXT_DENIED),
     Exception("URLError", TXT_TIMED_OUT),
     Exception("TimeoutError", TXT_TIMED_OUT),
     Exception("TimeoutError", <<>>),
     Exception("JSONDecodeError", TXT_EXPECTING_VALUE),
     Exception("ConnectionResetError", TXT_CONNECTION_RESET)}

\* what the publish functions raise: their own RuntimeError, or whatever
\* mqtt_publish.single raises
PublishExceptions ==
    {Exception("RuntimeError", TXT_MISSING_MQTT_HOST),
     Exception("ConnectionRefusedError", TXT_CONNECTION_REFUSED),
     Exception("TimeoutError", <<>>)}

\* rejseplanen/app.py main: except (URLError, HTTPError, TimeoutError,
\* ValueError, RuntimeError); json.JSONDecodeError is a ValueError
CaughtByApp == {"URLError", "HTTPError", "TimeoutError", "JSONDecodeError",
                "ValueError", "RuntimeError"}

\* fetch_departure_board.py main: the four except clauses of the fetch
CaughtByFdb == {"HTTPError", "URLError", "TimeoutError", "JSONDecodeError"}

\* str(exc)
str_exc(exc) ==
    CASE exc.cls = "HTTPError" ->
            TXT_HTTP_ERROR \o exc.code \o <<":", " ">> \o exc.text
      [] exc.cls = "URLError" -> TXT_URLOPEN_ERROR \o exc.text \o <<">">>
      [] OTHER -> exc.text

\* fetch_departure_board.py: format_http_error(exc), for a body that is
\* not JSON
format_http_error(exc) ==
    LET body == strip(exc.body)
        head == TXT_HTTP_ERROR_FDB \o exc.code \o <<" ">> \o exc.text
    IN  IF body = <<>> THEN head ELSE head \o <<"\n">> \o body

\* json.dumps(payload, ensure_ascii=False, indent=2) of a mapping whose
\* fields, in this order, are errorCode and errorText with str values
JSON_FIELDS == <<[key |-> "errorCode", text |-> TXT_ERROR_CODE],
                 [key |-> "errorText", text |-> TXT_ERROR_TEXT]>>

RECURSIVE json_members(_, _, _)
json_members(payload, i, first) ==
    IF i > Len(JSON_FIELDS) THEN <<>>
    ELSE IF JSON_FIELDS[i].key \notin DOMAIN payload.m
         THEN json_members(payload, i + 1, first)
    ELSE (IF first THEN <<>> ELSE <<",">>)
         \o <<"\n", " ", " ", "\"">> \o JSON_FIELDS[i].text \o <<"\"", ":", " ", "\"">>
         \o payload.m[JSON_FIELDS[i].key].s \o <<"\"">>
         \o json_members(payload, i + 1, FALSE)

json_dumps(payload) ==
    IF DOMAIN payload.m = {} THEN <<"{", "}">>
    ELSE <<"{">> \o json_members(payload, 1, TRUE) \o <<"\n", "}">>

\* response bodies of the departure-board service
BODY_BOARD == Dict([Departure |-> List(<<DEP_IC, DEP_RE>>)])
BODY_SINGLE == Dict([Departure |-> DEP_RE])
BODY_ERROR == Dict([errorCode |-> Str(TXT_API_AUTH), errorText |-> Str(TXT_ACCESS_DENIED)])
BODY_ERROR_CODE_ONLY == Dict([errorCode |-> Str(TXT_API_AUTH)])

Bodies == {BODY_BOARD, BODY_SINGLE, EmptyDict, BODY_ERROR, BODY_ERROR_CODE_ONLY}

\* how a call ends
Return(value) == [kind |-> "return", value |-> value]
Raise(exc) == [kind |-> "raise", exc |-> exc]

FetchOutcomes == {Return(body) : body \in Bodies} \cup {Raise(exc) : exc \in FetchExceptions}
PublishOutcomes == {Return(None)} \cup {Raise(exc) : exc \in PublishExceptions}

\* a network call: what was sent (the payload of a publish) and how it ended
Call(name, sent, outcome) == [name |-> name, sent |-> sent, outcome |-> outcome]

\* what main holds and prints: an envelope, the response body, the bare
\* list of rows, or a text
Envelope(envelope) == [kind |-> "envelope", value |-> envelope]
Raw(body) == [kind |-> "raw", value |-> body]
Rows(rows) == [kind |-> "rows", value |-> rows]
Text(text) == [kind |-> "text", value |-> Str(text)]
Traceback(exc) == [kind |-> "traceback", value |-> Str(str_exc(exc))]

Printed(stream, value) == [stream |-> stream, kind |-> value.kind, value |-> value.value]

\* isinstance(payload, dict) and payload.get("ok") is False
ok_is_false(payload) ==
    IF payload.kind = "envelope" THEN payload.value.ok = FALSE
    ELSE Get(payload.value, "ok") = Bool(FALSE)

\* a or b
py_or(a, b) == IF Truthy(a) THEN a ELSE b

RunArgs ==
    [mqtt_on : BOOLEAN, compact_data : BOOLEAN, cat_out : {None, Str(TXT_RE)},
     access_id : {None, Str(<<>>), Str(TXT_ACCESS_ID)}]

InitMain ==
    /\ op = "main"
    /\ variant \in {"app", "fdb"}
    /\ arg = None
    /\ ret = None
    /\ pc = "start"
    /\ args \in RunArgs
    /\ result = None
    /\ output = <<>>
    /\ exit_code = -1
    /\ calls = <<>>

\* mutant: main does not look at the access id and goes on to the fetch
AppStart_without_access_id_check ==
    /\ variant = "app"
    /\ pc = "start"
    /\ \E updated \in Clock :
          IF args.mqtt_on /\ ~args.compact_data
          THEN /\ output' = Append(output, Printed("stdout",
                    Envelope(build_payload(None, Str(TXT_MQTT_REQUIRES_COMPACT), updated))))
               /\ exit_code' = 1
               /\ pc' = "done"
               /\ UNCHANGED result
          ELSE /\ pc' = "fetch"
               /\ UNCHANGED <<result, output, exit_code>>
    /\ UNCHANGED <<op, variant, arg, ret, args, calls>>

\* rejseplanen/app.py main, up to the first network call: the check of
\* the flags and of the access id
AppStart ==
    /\ variant = "app"
    /\ pc = "start"
    /\ \E updated \in Clock :
          IF args.mqtt_on /\ ~args.compact_data
          THEN /\ output' = Append(output, Printed("stdout",
                    Envelope(build_payload(None, Str(TXT_MQTT_REQUIRES_COMPACT), updated))))
               /\ exit_code' = 1
               /\ pc' = "done"
               /\ UNCHANGED result
          ELSE IF ~Truthy(args.access_id)
          THEN LET payload == Envelope(build_payload(None, Str(TXT_MISSING_ACCESS_ID), updated))
               IN  /\ result' = payload
                   /\ IF args.mqtt_on
                      THEN /\ pc' = "publish_error"
                           /\ UNCHANGED <<output, exit_code>>
                      ELSE /\ output' = Append(output, Printed("stdout", payload))
                           /\ exit_code' = 1
                           /\ pc' = "done"
          ELSE /\ pc' = "fetch"
               /\ UNCHANGED <<result, output, exit_code>>
    /\ UNCHANGED <<op, variant, arg, ret, args, calls>>

\* rejseplanen/app.py main: the value of payload after the try block, for
\* a fetch that returned or raised an exception the except clause names
app_payload(outcome, updated) ==
    IF outcome.kind = "raise"
    THEN Envelope(build_payload(None, Str(str_exc(outcome.exc)), updated))
    ELSE LET raw == outcome.value
         IN  IF Truthy(Get(raw, "errorCode"))
             THEN Envelope(build_payload(None,
                      py_or(Get(raw, "errorText"), Get(raw, "errorCode")), updated))
             ELSE IF args.compact_data
             THEN Envelope(build_payload(
                      List(compact_departure_data_app(raw, args.cat_out)), None, updated))
             ELSE Raw(raw)

\* rejseplanen/app.py main: the fetch, and the rest of main up to the
\* publish, or to the end when nothing is published
AppFetch ==
    /\ variant = "app"
    /\ pc = "fetch"
    /\ \E outcome \in FetchOutcomes, updated \in Clock :
          /\ calls' = Append(calls, Call("fetch", None, outcome))
          /\ IF outcome.kind = "raise" /\ outcome.exc.cls \notin CaughtByApp
             THEN /\ output' = Append(output, Printed("stderr", Traceback(outcome.exc)))
                  /\ exit_code' = 1
                  /\ pc' = "raised"
                  /\ UNCHANGED result
             ELSE \E payload \in {app_payload(outcome, updated)} :
                      /\ result' = payload
                      /\ IF args.mqtt_on
                         THEN /\ pc' = "publish"
                              /\ UNCHANGED <<output, exit_code>>
                         ELSE /\ output' = Append(output, Printed("stdout", payload))
                              /\ exit_code' = IF ok_is_false(payload) THEN 1 ELSE 0
                              /\ pc' = "done"
    /\ UNCHANGED <<op, variant, arg, ret, args>>

\* rejseplanen/app.py main: publish_payload(payload) and what follows it
AppPublish ==
    /\ variant = "app"
    /\ pc \in {"publish_error", "publish"}
    /\ \E outcome \in PublishOutcomes, updated \in Clock :
          /\ calls' = Append(calls, Call("publish", result, outcome))
          /\ IF pc = "publish" /\ outcome.kind = "raise"
             THEN /\ output' = Append(output, Printed("stdout",
                       Envelope(build_payload(None, Str(str_exc(outcome.exc)), updated))))
                  /\ exit_code' = 1
             ELSE /\ output' = Append(output, Printed("stdout", result))
                  /\ exit_code' = IF pc = "publish_error" \/ ok_is_false(result)
                                  THEN 1 ELSE 0
    /\ pc' = "done"
    /\ UNCHANGED <<op, variant, arg, ret, args, result>>

\* mutant: without access id the error envelope is published whether or
\* not publishing is enabled
FdbStart_publishes_unasked ==
    /\ variant = "fdb"
    /\ pc = "start"
    /\ \E updated \in Clock :
          IF args.mqtt_on /\ ~args.compact_data
          THEN /\ output' = Append(output, Printed("stderr", Text(TXT_MQTT_REQUIRES_COMPACT_FDB)))
               /\ exit_code' = 2
               /\ pc' = "done"
               /\ UNCHANGED result
          ELSE IF ~Truthy(args.access_id)
          THEN /\ result' = Envelope(build_mqtt_payload(None,
                                Str(TXT_MISSING_ACCESS_ID_FDB), updated))
               /\ pc' = "publish_error"
               /\ UNCHANGED <<output, exit_code>>
          ELSE /\ pc' = "fetch"
               /\ UNCHANGED <<result, output, exit_code>>
    /\ UNCHANGED <<op, variant, arg, ret, args, calls>>

\* fetch_departure_board.py main, up to the first network call: the check
\* of the flags and of the access id
FdbStart ==
    /\ variant = "fdb"
    /\ pc = "start"
    /\ \E updated \in Clock :
          IF args.mqtt_on /\ ~args.compact_data
          THEN /\ output' = Append(output, Printed("stderr", Text(TXT_MQTT_REQUIRES_COMPACT_FDB)))
               /\ exit_code' = 2
               /\ pc' = "done"
               /\ UNCHANGED result
          ELSE IF ~Truthy(args.access_id)
          THEN IF args.mqtt_on
               THEN /\ result' = Envelope(build_mqtt_payload(None,
                                     Str(TXT_MISSING_ACCESS_ID_FDB), updated))
                    /\ pc' = "publish_error"
                    /\ UNCHANGED <<output, exit_code>>
               ELSE /\ output' = Append(output, Printed("stderr", Text(TXT_MISSING_ACCESS_ID_FDB)))
                    /\ exit_code' = 2
                    /\ pc' = "done"
                    /\ UNCHANGED result
          ELSE /\ pc' = "fetch"
               /\ UNCHANGED <<result, output, exit_code>>
    /\ UNCHANGED <<op, variant, arg, ret, args, calls>>

\* fetch_departure_board.py main: processing_error after the except
\* clauses of the fetch
fetch_processing_error(outcome) ==
    IF outcome.kind = "return" THEN None
    ELSE CASE outcome.exc.cls = "HTTPError" -> Str(format_http_error(outcome.exc))
           [] outcome.exc.cls = "URLError" -> Str(TXT_NETWORK_ERROR \o outcome.exc.text)
           [] outcome.exc.cls = "TimeoutError" -> Str(TXT_REQUEST_TIMED_OUT)
           [] outcome.exc.cls = "JSONDecodeError" ->
                 Str(TXT_FAILED_TO_DECODE \o str_exc(outcome.exc))

\* fetch_departure_board.py main: the fetch, and the rest of main up to
\* the publish, or to the end when nothing is published
FdbFetch ==
    /\ variant = "fdb"
    /\ pc = "fetch"
    /\ \E outcome \in FetchOutcomes, updated \in Clock :
          /\ calls' = Append(calls, Call("fetch", None, outcome))
          /\ IF outcome.kind = "raise" /\ outcome.exc.cls \notin CaughtByFdb
             THEN /\ output' = Append(output, Printed("stderr", Traceback(outcome.exc)))
                  /\ exit_code' = 1
                  /\ pc' = "raised"
                  /\ UNCHANGED result
             ELSE \E payload \in {IF outcome.kind = "return" THEN outcome.value ELSE EmptyDict} :
                  \E processing_error \in
                         {IF Truthy(fetch_processing_error(outcome))
                          THEN fetch_processing_error(outcome)
                          ELSE IF Truthy(Get(payload, "errorCode"))
                          THEN Str(json_dumps(payload))
                          ELSE None} :
                      IF processing_error # None
                      THEN IF args.mqtt_on
                           THEN /\ result' = Envelope(build_mqtt_payload(None,
                                                 processing_error, updated))
                                /\ pc' = "publish_error"
                                /\ UNCHANGED <<output, exit_code>>
                           ELSE /\ output' = Append(output,
                                       Printed("stderr", Text(processing_error.s)))
                                /\ exit_code' = 1
                                /\ pc' = "done"
                                /\ UNCHANGED result
                      ELSE \E filtered \in {filter_payload(payload, args.cat_out)} :
                           \E compact \in {IF args.compact_data
                                            THEN List(compact_departure_data_fdb(filtered))
                                            ELSE None} :
                              IF args.compact_data /\ args.mqtt_on
                              THEN /\ result' = Envelope(build_mqtt_payload(compact,
                                                    None, updated))
                                   /\ pc' = "publish"
                                   /\ UNCHANGED <<output, exit_code>>
                              ELSE /\ output' = Append(output, Printed("stdout",
                                          IF args.compact_data THEN Rows(compact)
                                          ELSE Raw(filtered)))
                                   /\ exit_code' = 0
                                   /\ pc' = "done"
                                   /\ UNCHANGED result
    /\ UNCHANGED <<op, variant, arg, ret, args>>

\* mutant: after a failed publish the envelope that was to be published
\* is printed
FdbPublish_prints_result ==
    /\ variant = "fdb"
    /\ pc \in {"publish_error", "publish"}
    /\ \E outcome \in PublishOutcomes :
          /\ calls' = Append(calls, Call("publish", result, outcome))
          /\ output' = Append(output, Printed("stdout", result))
          /\ exit_code' = IF pc = "publish_error" \/ outcome.kind = "raise" THEN 1 ELSE 0
    /\ pc' = "done"
    /\ UNCHANGED <<op, variant, arg, ret, args, result>>

\* fetch_departure_board.py main: publish_payload_to_mqtt(mqtt_payload)
\* and what follows it
FdbPublish ==
    /\ variant = "fdb"
    /\ pc \in {"publish_error", "publish"}
    /\ \E outcome \in PublishOutcomes, updated \in Clock :
          /\ calls' = Append(calls, Call("publish", result, outcome))
          /\ IF pc = "publish" /\ outcome.kind = "raise"
             THEN \E mqtt_payload \in {Envelope(build_mqtt_payload(None,
                                          Str(str_exc(outcome.exc)), updated))} :
                      /\ result' = mqtt_payload
                      /\ output' = Append(output, Printed("stdout", mqtt_payload))
                      /\ exit_code' = 1
             ELSE /\ output' = Append(output, Printed("stdout", result))
                  /\ exit_code' = IF pc = "publish_error" THEN 1 ELSE 0
                  /\ UNCHANGED result
    /\ pc' = "done"
    /\ UNCHANGED <<op, variant, arg, ret, args>>

NextMain == AppStart \/ AppFetch \/ AppPublish \/ FdbStart \/ FdbFetch \/ FdbPublish

SpecMain == InitMain /\ [][NextMain]_vars

\* main has returned, or an exception has left it
Finished == pc \in {"done", "raised"}

FetchCalls == {i \in DOMAIN calls : calls[i].name = "fetch"}
PublishCalls == {i \in DOMAIN calls : calls[i].name = "publish"}

\* a usage or configuration error: publishing asked for without compact
\* output, or no access id
UsageError == (args.mqtt_on /\ ~args.compact_data) \/ ~Truthy(args.access_id)

\* the call raised, or the fetched body carries an errorCode
Failed(call) ==
    \/ call.outcome.kind = "raise"
    \/ call.name = "fetch" /\ Truthy(Get(call.outcome.value, "errorCode"))

FetchFailed == \E i \in FetchCalls : Failed(calls[i])
PublishFailed == \E i \in PublishCalls : Failed(calls[i])

\* C12: in both programs the exit code is 2 exactly on a usage or
\* configuration error (whatever the other flags), 1 exactly when the
\* fetch, the processing or the publish failed, and 0 exactly when the
\* fetch, the processing and the publish, if enabled, all succeeded
C12_ExitCodes ==
    Finished =>
        /\ exit_code = 2 <=> UsageError
        /\ exit_code = 1 <=> (~UsageError /\ (FetchFailed \/ PublishFailed))
        /\ exit_code = 0 <=> (~UsageError /\ ~FetchFailed /\ ~PublishFailed)

ErrorEnvelope(value) ==
    /\ value.kind = "envelope"
    /\ value.value.ok = FALSE
    /\ value.value.count = -1
    /\ value.value.items = Num(-1)
    /\ isStr(value.value.error)

TransportErrors == {"HTTPError", "URLError", "TimeoutError", "ConnectionResetError"}

UpstreamFailure ==
    \E i \in FetchCalls :
        \/ calls[i].outcome.kind = "raise" /\ calls[i].outcome.exc.cls \in TransportErrors
        \/ calls[i].outcome.kind = "return" /\ Truthy(Get(calls[i].outcome.value, "errorCode"))

\* C14: whenever the fetch fails with a transport error or the body
\* carries an errorCode, no exception leaves main and the run prints an
\* envelope of the error path (ok false, the message in error), in both
\* programs and for every combination of flags
C14_FetchFailureEnvelope ==
    (Finished /\ UpstreamFailure) =>
        /\ pc = "done"
        /\ \E i \in DOMAIN output :
              output[i].stream = "stdout" /\ ErrorEnvelope(output[i])

\* the fetch returned a body without errorCode, and the publish raised
PublishFailedAfterFetch ==
    /\ pc = "done"
    /\ FetchCalls # {}
    /\ ~FetchFailed
    /\ PublishFailed

\* C15: when fetch and classification succeeded and the publish then
\* fails, the run still prints the successful envelope, the one handed to
\* the publish, and exits with status 1
C15_PublishFailureKeepsResult ==
    PublishFailedAfterFetch =>
        /\ exit_code = 1
        /\ calls[Len(calls)].sent.value.ok = TRUE
        /\ output = <<Printed("stdout", calls[Len(calls)].sent)>>

\* the envelope the program's builder returns on its error path for a
\* message, at some reading of the clock
BuiltFromError(message) ==
    {Envelope(IF variant = "app" THEN build_payload(None, Str(message), updated)
              ELSE build_mqtt_payload(None, Str(message), updated)) : updated \in Clock}

\* C15 (amended): when fetch and classification succeeded and the publish
\* then fails, the run prints, in place of the successful envelope, the
\* envelope its builder returns for the message of the publish failure
\* (error=str(exc)), prints nothing else, and exits with status 1
C15_PublishFailureFallback ==
    PublishFailedAfterFetch =>
        /\ exit_code = 1
        /\ Len(output) = 1
        /\ \E fallback \in BuiltFromError(str_exc(calls[Len(calls)].outcome.exc)) :
              output[1] = Printed("stdout", fallback)

\* C15 witness: the board was fetched, its two rows were handed to the
\* publish, the publish raised "Missing MQTT_HOST" and the error envelope
\* with that message was printed
C15_Witness ==
    /\ PublishFailedAfterFetch
    /\ calls[1].outcome.value = BODY_BOARD
    /\ calls[2].sent.value.ok = TRUE
    /\ calls[2].sent.value.count = 2
    /\ calls[2].outcome.exc.text = TXT_MISSING_MQTT_HOST
    /\ ErrorEnvelope(output[1])
    /\ output[1].value.error = Str(TXT_MISSING_MQTT_HOST)
    /\ exit_code = 1

\* C16: in every run the fetch is made at most once and the publish at
\* most once, the publish only when publishing is enabled, and no fetch
\* comes after a publish
C16_CallOrder ==
    /\ Cardinality(FetchCalls) <= 1
    /\ Cardinality(PublishCalls) <= 1
    /\ PublishCalls # {} => args.mqtt_on
    /\ \A i \in PublishCalls : \A j \in FetchCalls : j < i

\* C16 witness: a finished run that fetched and then published
C16_Witness ==
    /\ Finished
    /\ FetchCalls = {1}
    /\ PublishCalls = {2}
    /\ args.mqtt_on

\* rejseplanen/app.py: a failure that main catches: an exception of the
\* fetch that the except clause names, the RuntimeError raised for an
\* errorCode, or any exception of the publish
CaughtFailure ==
    \E i \in DOMAIN calls :
        \/ calls[i].name = "publish" /\ calls[i].outcome.kind = "raise"
        \/ /\ calls[i].name = "fetch"
           /\ \/ calls[i].outcome.kind = "raise" /\ calls[i].outcome.exc.cls \in CaughtByApp
              \/ calls[i].outcome.kind = "return"
                   /\ Truthy(Get(calls[i].outcome.value, "errorCode"))

\* C17: in rejseplanen/app.py, after any caught failure of the fetch or of
\* the publish, whatever the message of the exception (the empty one
\* included), the run exits with status 1 and every envelope it prints
\* has ok false and an error that is not null
C17_CaughtFailureNeverOk ==
    (variant = "app" /\ pc = "done" /\ CaughtFailure) =>
        /\ exit_code = 1
        /\ \A i \in DOMAIN output :
              output[i].kind = "envelope" =>
                  /\ output[i].value.ok = FALSE
                  /\ output[i].value.error # None

====
